---------------------------- MODULE Spec2Model ----------------------------
(***************************************************************************)
(* State-machine model of the ImageCropper widget.                         *)
(*                                                                         *)
(* The repository holds two revisions of the component: the one with the   *)
(* rotation controls (src/unnamed/part_000) and the one with the outline   *)
(* and mask props (src/src/components/ImageCropper.tsx).  Loader, frame    *)
(* controller and the unmasked exporter are the same text in both; the     *)
(* model is their union.                                                   *)
(*                                                                         *)
(* Pixel quantities are JavaScript numbers.  They are modelled as exact    *)
(* rationals <<n, d>> (d > 0, lowest terms), so that a division by the     *)
(* aspect ratio or by the display width is a division, not a rounding.     *)
(***************************************************************************)
EXTENDS Integers, Sequences, FiniteSets, Bags, TLC

VARIABLES
    stage,         \* stageRef's bounding rect: [width, height]
    src,           \* the image the src prop names: [width, height, ok]
    aspectRatio,   \* the aspectRatio prop, a rational
    maskSrc,       \* whether the maskSrc prop is supplied
    rotation,      \* useState(0)
    frame,         \* useState<FrameCoords>
    isDragging,    \* useState(false)
    dragStart,     \* useState({x: 0, y: 0})
    activeHandle,  \* useState<string | null>(null); "none" is null
    isLoaded,      \* useState(false)
    canvas,        \* the display raster: [width, height, drawn]
    loader,        \* the loader effect's Image: "pending", "done", "failed"
    redraws,       \* bag of rotations whose redraw Image has not fired yet
    exports,       \* bag of payloads whose mask Image has not fired yet
    delivered,     \* the payloads handed to onChange, in order
    rightHist,     \* history: rotation before each of the last rotate-rights
    moves,         \* pointer-moves delivered to a drag so far (bounded)
    stale,         \* bag of callbacks of effects a prop change has superseded
    commits,       \* history: per Done click, whether the 2D context was there
    hovered,       \* history: a pointer-move has arrived while no drag was on
    grab,          \* history of the drag in progress: where it started
    crops,         \* history: the output raster drawn at each commit, in order
    presses        \* history: the last two rotate clicks that followed one another

vars == <<stage, src, aspectRatio, maskSrc, rotation, frame, isDragging,
          dragStart, activeHandle, isLoaded, canvas, loader, redraws,
          exports, delivered, rightHist, presses, moves, stale, commits, crops, hovered,
          grab>>

-----------------------------------------------------------------------------
(* Exact rational arithmetic for JavaScript numbers.                       *)

Abs(n) == IF n < 0 THEN -n ELSE n

RECURSIVE GCD(_, _)
GCD(a, b) == IF b = 0 THEN a ELSE GCD(b, a % b)

\* n/d in lowest terms, d > 0.
Rat(n, d) ==
    LET g == GCD(Abs(n), d) IN <<n \div g, d \div g>>

Num(n) == <<n, 1>>

RAdd(a, b) == Rat(a[1] * b[2] + b[1] * a[2], a[2] * b[2])
RSub(a, b) == Rat(a[1] * b[2] - b[1] * a[2], a[2] * b[2])
RMul(a, b) == Rat(a[1] * b[1], a[2] * b[2])
\* a / b for b # 0.
RDiv(a, b) ==
    IF b[1] > 0 THEN Rat(a[1] * b[2], a[2] * b[1])
                ELSE Rat(-(a[1] * b[2]), a[2] * (-b[1]))
RLe(a, b) == a[1] * b[2] <= b[1] * a[2]
RLt(a, b) == a[1] * b[2] < b[1] * a[2]
RMin(a, b) == IF RLe(a, b) THEN a ELSE b
RMax(a, b) == IF RLe(a, b) THEN b ELSE a

\* The integer an assignment to canvas.width keeps of a non-negative
\* number (the attribute is an unsigned long: the fraction is dropped).
ToLength(a) == a[1] \div a[2]

\* JavaScript's %: the result has the sign of the dividend.
JsRem(a, b) == IF a >= 0 THEN a % b ELSE -((-a) % b)

-----------------------------------------------------------------------------
(* Program constants.                                                      *)

\* The minimum crop size of the resize clamps.
MinSize == 100

\* A fresh <canvas> is 300 x 150 and blank.  drawn is the set of the
\* pictures the raster shows: none, or one image at one rotation.
DefaultCanvasWidth == 300
DefaultCanvasHeight == 150
Blank == {}
Drawn(im, deg) == {[image |-> im, rotation |-> deg]}

InitialFrame == [tx |-> Num(0), ty |-> Num(0), sx |-> Num(300), sy |-> Num(300)]

Handles == {"move", "tl", "tr", "bl", "br", "t", "r", "b", "l"}

\* activeHandle?.includes(c)
Includes(handle, c) ==
    CASE c = "r" -> handle \in {"tr", "br", "r"}
      [] c = "l" -> handle \in {"tl", "bl", "l"}
      [] c = "b" -> handle \in {"bl", "br", "b"}
      [] c = "t" -> handle \in {"tl", "tr", "t"}

-----------------------------------------------------------------------------
(* Bounds of the model: the inputs the environment may deliver.            *)

\* The images src may name: intrinsic size, and whether it decodes.
Square == [width |-> 400, height |-> 400, ok |-> TRUE]
Wide == [width |-> 800, height |-> 400, ok |-> TRUE]
Banner == [width |-> 300, height |-> 150, ok |-> TRUE]
Broken == [width |-> 400, height |-> 400, ok |-> FALSE]

\* The mounts explored: the side of the stage (it is square: className
\* "aspect-square"), the image src names, and the aspectRatio prop.
FrameMounts ==
    { [side |-> 400, src |-> Square, aspectRatio |-> Num(1)],
      [side |-> 400, src |-> Square, aspectRatio |-> Rat(1, 2)],
      [side |-> 400, src |-> Wide,   aspectRatio |-> Num(2)],
      [side |-> 400, src |-> Broken, aspectRatio |-> Num(1)] }

RotationMounts ==
    { [side |-> 400, src |-> Square, aspectRatio |-> Num(1)],
      [side |-> 400, src |-> Wide,   aspectRatio |-> Num(2)],
      [side |-> 400, src |-> Broken, aspectRatio |-> Num(1)] }

\* The mounts of the loads: images smaller than, as large as and larger
\* than the stage, in three shapes, decoding or not, and three ratios.
LoadMounts ==
    { [side |-> sd, src |-> [width |-> w, height |-> h, ok |-> ok],
       aspectRatio |-> ar] :
        sd \in {200, 400}, w \in {150, 300, 400, 800},
        h \in {150, 400, 600}, ok \in BOOLEAN,
        ar \in {Num(1), Num(2), Rat(1, 2)} }

\* The mounts of the drags that meet a rotation.
TurnMounts ==
    { [side |-> 200, src |-> Square, aspectRatio |-> Num(1)],
      [side |-> 200, src |-> Broken, aspectRatio |-> Num(1)] }

\* With each export mount, whether the maskSrc prop is supplied.
ExportMounts ==
    { [side |-> 200, src |-> Square, aspectRatio |-> Num(1), mask |-> FALSE],
      [side |-> 200, src |-> Square, aspectRatio |-> Num(1), mask |-> TRUE],
      [side |-> 200, src |-> Banner, aspectRatio |-> Num(2), mask |-> FALSE],
      [side |-> 200, src |-> Broken, aspectRatio |-> Num(1), mask |-> FALSE] }

\* The values a re-render may give the src and aspectRatio props.
PropImages == {Square, Wide, Broken}
PropRatios == {Num(1), Num(2)}

\* The mounts of the commits that a drag overlaps: a mask is supplied.
MaskMounts ==
    { [side |-> 200, src |-> Square, aspectRatio |-> Num(1), mask |-> TRUE],
      [side |-> 200, src |-> Broken, aspectRatio |-> Num(1), mask |-> TRUE] }

\* The mounts of the commits: every image, two ratios, with and without a
\* mask.
CommitMounts ==
    { [side |-> 200, src |-> im, aspectRatio |-> ar, mask |-> mk] :
        im \in {Square, Wide, Banner, Broken}, ar \in {Num(1), Num(2)},
        mk \in BOOLEAN }

\* Stage-relative pointer positions an event may carry, per stage side.
PointerSet(side) ==
    IF side = 400
    THEN { [x |-> 0, y |-> 0], [x |-> 200, y |-> 200], [x |-> 100, y |-> 300],
           [x |-> 400, y |-> 400] }
    ELSE { [x |-> 145, y |-> 145], [x |-> 105, y |-> 105] }

Pointers == PointerSet(stage.width)

\* The values the rotation slider delivers (it ranges over 0..360, step 1).
SliderValues == {0, 45, 90, 200, 359, 360}

\* Pointer-moves delivered to drags in one run of the model.
MaxMoves == 3

\* Image decodes in flight at once (rotation redraws, mask decodes).
MaxPending == 2

\* Clicks on Done in one run of the model.
MaxCommits == 2

-----------------------------------------------------------------------------
(* Layout: where the browser puts the display raster inside the stage.     *)

\* The canvas is a replaced element with "max-w-full max-h-full": it is
\* shown at its native size when that fits the stage and is otherwise
\* scaled down to fit, keeping its proportions.
DisplaySize(cv, st) ==
    IF cv.width <= st.width /\ cv.height <= st.height
    THEN [width |-> Num(cv.width), height |-> Num(cv.height)]
    ELSE IF cv.width * st.height >= cv.height * st.width
         THEN [width |-> Num(st.width),
               height |-> Rat(cv.height * st.width, cv.width)]
         ELSE [width |-> Rat(cv.width * st.height, cv.height),
               height |-> Num(st.height)]

\* canvasRect - stageRect: the flex container centres the canvas.
CanvasOffset(cv, st) ==
    LET d == DisplaySize(cv, st) IN
    [x |-> RDiv(RSub(Num(st.width), d.width), Num(2)),
     y |-> RDiv(RSub(Num(st.height), d.height), Num(2))]

-----------------------------------------------------------------------------
(* Loader.                                                                 *)

\* The frame img.onload computes for image im on stage st.
LoaderFrame(im, st, ar) ==
    LET containerSize == Num(IF st.width <= st.height THEN st.width ELSE st.height)
        imgAspectRatio == Rat(im.width, im.height)
        wide == RLt(Num(1), imgAspectRatio)
        canvasWidth == IF wide THEN containerSize
                       ELSE RMul(containerSize, imgAspectRatio)
        canvasHeight == IF wide THEN RDiv(containerSize, imgAspectRatio)
                        ELSE containerSize
        off == CanvasOffset([width |-> im.width, height |-> im.height], st)
        initialSize == RMul(RMin(canvasWidth, canvasHeight), Rat(1, 2))
        frameWidth == initialSize
        frameHeight == IF ar[1] # 0 THEN RDiv(frameWidth, ar) ELSE initialSize
    IN [tx |-> RAdd(off.x, RDiv(RSub(canvasWidth, frameWidth), Num(2))),
        ty |-> RAdd(off.y, RDiv(RSub(canvasHeight, frameHeight), Num(2))),
        sx |-> frameWidth,
        sy |-> frameHeight]

\* Whether the loader's Image fires onload.
Decodes(im) == im.ok

\* img.onload of the loader effect.
LoaderOnload ==
    /\ loader = "pending"
    /\ Decodes(src)
    /\ canvas' = [width |-> src.width, height |-> src.height,
                  drawn |-> Drawn(src, 0)]
    /\ frame' = LoaderFrame(src, stage, aspectRatio)
    /\ isLoaded' = TRUE
    /\ loader' = "done"
    /\ UNCHANGED <<stage, src, aspectRatio, maskSrc, rotation, isDragging,
                   dragStart, activeHandle, redraws, exports, delivered,
                   rightHist, presses, moves, stale,
                   commits, crops, hovered, grab>>

\* The loader's Image fails to decode: no onerror handler is attached.
LoaderOnerror ==
    /\ loader = "pending"
    /\ ~Decodes(src)
    /\ loader' = "failed"
    /\ UNCHANGED <<stage, src, aspectRatio, maskSrc, rotation, frame,
                   isDragging, dragStart, activeHandle, isLoaded, canvas,
                   redraws, exports, delivered, rightHist, presses, moves, stale,
                   commits, crops, hovered, grab>>

-----------------------------------------------------------------------------
(* Frame controller.                                                       *)

\* Mutant of FrameRendered: the frame is rendered before the load.
FrameAlwaysRendered == TRUE

\* The crop frame and its handles are rendered only when isLoaded.
FrameRendered == isLoaded

\* A pointer position as the numbers the handlers compute with.
Pt(p) == [x |-> Num(p.x), y |-> Num(p.y)]

\* The pointer is over the frame body.
OverFrame(p, f) ==
    /\ RLe(f.tx, Num(p.x)) /\ RLe(Num(p.x), RAdd(f.tx, f.sx))
    /\ RLe(f.ty, Num(p.y)) /\ RLe(Num(p.y), RAdd(f.ty, f.sy))

\* Where a resize handle sits: a corner handle on its corner, an edge
\* handle along its edge (the pointer takes the edge's middle, or the
\* nearest point of it inside the stage).
HandlePoint(handle, f, st) ==
    LET midX == RAdd(f.tx, RDiv(f.sx, Num(2)))
        midY == RAdd(f.ty, RDiv(f.sy, Num(2)))
    IN [x |-> IF Includes(handle, "l") THEN f.tx
              ELSE IF Includes(handle, "r") THEN RAdd(f.tx, f.sx)
              ELSE RMax(Num(0), RMin(midX, Num(st.width))),
        y |-> IF Includes(handle, "t") THEN f.ty
              ELSE IF Includes(handle, "b") THEN RAdd(f.ty, f.sy)
              ELSE RMax(Num(0), RMin(midY, Num(st.height)))]

\* The stage clips its children ("overflow-hidden"): a handle can be
\* pressed only where it lies inside the stage.
HandleShown(handle, f, st) ==
    LET at == HandlePoint(handle, f, st)
    IN /\ RLe(Num(0), at.x) /\ RLe(at.x, Num(st.width))
       /\ RLe(Num(0), at.y) /\ RLe(at.y, Num(st.height))

\* No drag is in progress.
NoGrab == [frame |-> InitialFrame, at |-> [x |-> Num(0), y |-> Num(0)],
           clamped |-> FALSE]

\* grab records the frame and the pointer at the pointer-down, and whether a
\* clamp of the move branch has cut a translation since.
handleMouseDown(at, direction) ==
    /\ FrameRendered
    /\ isDragging' = TRUE
    /\ activeHandle' = direction
    /\ dragStart' = at
    /\ grab' = [frame |-> frame, at |-> at, clamped |-> FALSE]
    /\ UNCHANGED <<stage, src, aspectRatio, maskSrc, rotation, frame,
                   isLoaded, canvas, loader, redraws, exports, delivered,
                   rightHist, presses, moves, stale, commits, crops, hovered>>

\* onMouseDown of the frame body.
onFrameMouseDown(p) ==
    /\ OverFrame(p, frame)
    /\ handleMouseDown(Pt(p), "move")

\* onMouseDown of a corner or edge handle.
onHandleMouseDown(handle) ==
    /\ HandleShown(handle, frame, stage)
    /\ handleMouseDown(HandlePoint(handle, frame, stage), handle)

\* The "move" branch of the setFrame updater.
MoveFrame(prev, deltaX, deltaY, rect) ==
    [prev EXCEPT
       !.tx = RMax(Num(0), RMin(RAdd(prev.tx, deltaX),
                                RSub(Num(rect.width), prev.sx))),
       !.ty = RMax(Num(0), RMin(RAdd(prev.ty, deltaY),
                                RSub(Num(rect.height), prev.sy)))]

\* The right-handle branch: the new sx.
ResizeRight(prev, x, rect) ==
    RMax(Num(MinSize), RMin(RSub(Num(x), prev.tx), RSub(Num(rect.width), prev.tx)))

\* The left-handle branch: the new left edge.
NewLeft(prev, x) ==
    LET maxLeft == RSub(RAdd(prev.tx, prev.sx), Num(MinSize))
    IN RMax(Num(0), RMin(Num(x), maxLeft))

\* The bottom-handle branch: the new sy.
ResizeBottom(prev, y, rect) ==
    RMax(Num(MinSize), RMin(RSub(Num(y), prev.ty), RSub(Num(rect.height), prev.ty)))

\* The top-handle branch: the new top edge.
NewTop(prev, y) ==
    LET maxTop == RSub(RAdd(prev.ty, prev.sy), Num(MinSize))
    IN RMax(Num(0), RMin(Num(y), maxTop))

\* Mutant of ApplyAspect: the corner handles skip the aspect-ratio step.
ApplyAspectEdgesOnly(f, handle, ar) ==
    IF ar[1] # 0 /\ handle \in {"t", "r", "b", "l"}
    THEN IF handle \in {"r", "l"}
         THEN [f EXCEPT !.sy = RDiv(f.sx, ar)]
         ELSE [f EXCEPT !.sx = RMul(f.sy, ar)]
    ELSE f

\* The aspect-ratio step that ends every resize.
ApplyAspect(f, handle, ar) ==
    IF ar[1] # 0
    THEN IF Includes(handle, "r") \/ Includes(handle, "l")
         THEN [f EXCEPT !.sy = RDiv(f.sx, ar)]
         ELSE [f EXCEPT !.sx = RMul(f.sy, ar)]
    ELSE f

\* The resize branch of the setFrame updater.
ResizeFrame(prev, handle, x, y, rect, ar) ==
    LET f1 == IF Includes(handle, "r")
              THEN [prev EXCEPT !.sx = ResizeRight(prev, x, rect)]
              ELSE prev
        f2 == IF Includes(handle, "l")
              THEN [f1 EXCEPT
                      !.sx = RAdd(prev.sx, RSub(prev.tx, NewLeft(prev, x))),
                      !.tx = NewLeft(prev, x)]
              ELSE f1
        f3 == IF Includes(handle, "b")
              THEN [f2 EXCEPT !.sy = ResizeBottom(prev, y, rect)]
              ELSE f2
        f4 == IF Includes(handle, "t")
              THEN [f3 EXCEPT
                      !.sy = RAdd(prev.sy, RSub(prev.ty, NewTop(prev, y))),
                      !.ty = NewTop(prev, y)]
              ELSE f3
    IN ApplyAspect(f4, handle, ar)

\* The setFrame updater of handleMouseMove.
NextFrame(prev, handle, p, start, rect, ar) ==
    IF handle = "move"
    THEN MoveFrame(prev, RSub(Num(p.x), start.x), RSub(Num(p.y), start.y), rect)
    ELSE ResizeFrame(prev, handle, p.x, p.y, rect, ar)

\* The move branch has clamped: the frame did not follow the pointer.
Clamps(prev, deltaX, deltaY, rect) ==
    \/ MoveFrame(prev, deltaX, deltaY, rect).tx # RAdd(prev.tx, deltaX)
    \/ MoveFrame(prev, deltaX, deltaY, rect).ty # RAdd(prev.ty, deltaY)

\* Mutant of handleMouseMove: the guard on isDragging is missing.
handleMouseMoveUnguarded(p) ==
    IF ~isDragging
    THEN /\ hovered' = TRUE
         /\ frame' = NextFrame(frame, activeHandle, p, dragStart, stage, aspectRatio)
         /\ dragStart' = Pt(p)
         /\ UNCHANGED <<stage, src, aspectRatio, maskSrc, rotation, isDragging,
                        activeHandle, isLoaded, canvas, loader, redraws,
                        exports, delivered, rightHist, presses, moves, stale, commits, crops,
                        grab>>
    ELSE /\ moves < MaxMoves
         /\ frame' = NextFrame(frame, activeHandle, p, dragStart, stage, aspectRatio)
         /\ dragStart' = Pt(p)
         /\ moves' = moves + 1
         /\ grab' = IF activeHandle = "move"
                       /\ Clamps(frame, RSub(Num(p.x), dragStart.x),
                                 RSub(Num(p.y), dragStart.y), stage)
                    THEN [grab EXCEPT !.clamped = TRUE]
                    ELSE grab
         /\ UNCHANGED <<stage, src, aspectRatio, maskSrc, rotation, isDragging,
                        activeHandle, isLoaded, canvas, loader, redraws,
                        exports, delivered, rightHist, presses, stale, commits, crops, hovered>>

\* Mutant of handleMouseMove: setDragStart({x, y}) is missing.
handleMouseMoveKeepsOrigin(p) ==
    IF ~isDragging
    THEN /\ hovered' = TRUE
         /\ UNCHANGED <<stage, src, aspectRatio, maskSrc, rotation, frame,
                        isDragging, dragStart, activeHandle, isLoaded, canvas,
                        loader, redraws, exports, delivered, rightHist, presses, moves,
                        stale, commits, crops, grab>>
    ELSE /\ moves < MaxMoves
         /\ frame' = NextFrame(frame, activeHandle, p, dragStart, stage, aspectRatio)
         /\ moves' = moves + 1
         /\ grab' = IF activeHandle = "move"
                       /\ Clamps(frame, RSub(Num(p.x), dragStart.x),
                                 RSub(Num(p.y), dragStart.y), stage)
                    THEN [grab EXCEPT !.clamped = TRUE]
                    ELSE grab
         /\ UNCHANGED <<stage, src, aspectRatio, maskSrc, rotation, isDragging,
                        dragStart, activeHandle, isLoaded, canvas, loader,
                        redraws, exports, delivered, rightHist, presses, stale, commits, crops,
                        hovered>>

\* A pointer-move while no drag is on returns at the guard: the model only
\* notes that one has arrived.
handleMouseMove(p) ==
    IF ~isDragging
    THEN /\ hovered' = TRUE
         /\ UNCHANGED <<stage, src, aspectRatio, maskSrc, rotation, frame,
                        isDragging, dragStart, activeHandle, isLoaded, canvas,
                        loader, redraws, exports, delivered, rightHist, presses, moves,
                        stale, commits, crops, grab>>
    ELSE /\ moves < MaxMoves
         /\ frame' = NextFrame(frame, activeHandle, p, dragStart, stage, aspectRatio)
         /\ dragStart' = Pt(p)
         /\ moves' = moves + 1
         /\ grab' = IF activeHandle = "move"
                       /\ Clamps(frame, RSub(Num(p.x), dragStart.x),
                                 RSub(Num(p.y), dragStart.y), stage)
                    THEN [grab EXCEPT !.clamped = TRUE]
                    ELSE grab
         /\ UNCHANGED <<stage, src, aspectRatio, maskSrc, rotation, isDragging,
                        activeHandle, isLoaded, canvas, loader, redraws,
                        exports, delivered, rightHist, presses, stale, commits, crops, hovered>>

\* Mutant of handleMouseUp: setActiveHandle(null) is missing.
handleMouseUpKeepsHandle ==
    /\ isDragging' = FALSE
    /\ grab' = NoGrab
    /\ UNCHANGED <<stage, src, aspectRatio, maskSrc, rotation, frame,
                   dragStart, activeHandle, isLoaded, canvas, loader, redraws,
                   exports, delivered, rightHist, presses, moves, stale, commits, crops,
                   hovered>>

handleMouseUp ==
    /\ isDragging' = FALSE
    /\ activeHandle' = "none"
    /\ grab' = NoGrab
    /\ UNCHANGED <<stage, src, aspectRatio, maskSrc, rotation, frame,
                   dragStart, isLoaded, canvas, loader, redraws, exports,
                   delivered, rightHist, presses, moves, stale, commits, crops, hovered>>

\* The stage's onMouseUp and onMouseLeave both run handleMouseUp.
onMouseUp == handleMouseUp
onMouseLeave == handleMouseUp

-----------------------------------------------------------------------------
(* Transform stage.                                                        *)

\* sin of 0..90 degrees, in millionths.
SinTable ==
  << 0, 17452, 34899, 52336, 69756, 87156, 104528, 121869, 139173, 156434,
     173648, 190809, 207912, 224951, 241922, 258819, 275637, 292372, 309017, 325568,
     342020, 358368, 374607, 390731, 406737, 422618, 438371, 453990, 469472, 484810,
     500000, 515038, 529919, 544639, 559193, 573576, 587785, 601815, 615661, 629320,
     642788, 656059, 669131, 681998, 694658, 707107, 719340, 731354, 743145, 754710,
     766044, 777146, 788011, 798636, 809017, 819152, 829038, 838671, 848048, 857167,
     866025, 874620, 882948, 891007, 898794, 906308, 913545, 920505, 927184, 933580,
     939693, 945519, 951057, 956305, 961262, 965926, 970296, 974370, 978148, 981627,
     984808, 987688, 990268, 992546, 994522, 996195, 997564, 998630, 999391, 999848,
     1000000 >>

\* Math.abs(Math.sin(deg * Math.PI / 180)) for deg >= 0, in millionths.
AbsSin(deg) ==
    LET d == deg % 180
    IN SinTable[(IF d > 90 THEN 180 - d ELSE d) + 1]

\* Math.abs(Math.cos(deg * Math.PI / 180)) for deg >= 0, in millionths.
AbsCos(deg) == AbsSin(deg + 90)

\* The size the redraw gives the display raster: newWidth and newHeight as
\* canvas.width and canvas.height keep them.
BoundingBox(im, deg) ==
    [width  |-> ToLength(Rat(im.width * AbsCos(deg) + im.height * AbsSin(deg), 1000000)),
     height |-> ToLength(Rat(im.width * AbsSin(deg) + im.height * AbsCos(deg), 1000000))]

\* Mutant of RotateLeftValue: rotate-left turns the way rotate-right does.
RotateLeftClockwise(r) == JsRem(r + 90, 360)

\* Mutant of RotateLeftValue: the + 360 before the remainder is missing.
RotateLeftNoOffset(r) == JsRem(r - 90, 360)

\* rotate-left:  (r) => (r - 90 + 360) % 360
RotateLeftValue(r) == JsRem(r - 90 + 360, 360)

\* Mutant of RotateRightValue: the remainder is missing.
RotateRightNoWrap(r) == r + 90

\* rotate-right: (r) => (r + 90) % 360
RotateRightValue(r) == JsRem(r + 90, 360)

\* setRotation(v): a changed rotation re-runs the rotation effect, which
\* creates an Image whose onload redraws at v.
setRotation(v) ==
    /\ rotation' = v
    /\ IF v = rotation
       THEN redraws' = redraws
       ELSE /\ BagCardinality(redraws) < MaxPending
            /\ redraws' = redraws (+) SetToBag({v})

\* presses after a click on a rotate button: the click before it, if it
\* was one, and this one with the rotation it found.
Pressed(button) ==
    (IF presses = <<>> THEN <<>> ELSE <<presses[Len(presses)]>>)
        \o <<[button |-> button, from |-> rotation]>>

RotateLeft ==
    /\ setRotation(RotateLeftValue(rotation))
    /\ rightHist' = <<>>
    /\ presses' = Pressed("left")
    /\ UNCHANGED <<stage, src, aspectRatio, maskSrc, frame, isDragging,
                   dragStart, activeHandle, isLoaded, canvas, loader,
                   exports, delivered, moves, stale,
                   commits, crops, hovered, grab>>

\* rightHist keeps the rotation before each of the last four rotate-rights
\* that followed one another.
RotateRight ==
    /\ setRotation(RotateRightValue(rotation))
    /\ rightHist' = IF Len(rightHist) < 4
                    THEN Append(rightHist, rotation)
                    ELSE Append(Tail(rightHist), rotation)
    /\ presses' = Pressed("right")
    /\ UNCHANGED <<stage, src, aspectRatio, maskSrc, frame, isDragging,
                   dragStart, activeHandle, isLoaded, canvas, loader,
                   exports, delivered, moves, stale,
                   commits, crops, hovered, grab>>

\* Slider onValueChange
SliderChange(value) ==
    /\ setRotation(value)
    /\ rightHist' = <<>>
    /\ presses' = <<>>
    /\ UNCHANGED <<stage, src, aspectRatio, maskSrc, frame, isDragging,
                   dragStart, activeHandle, isLoaded, canvas, loader,
                   exports, delivered, moves, stale,
                   commits, crops, hovered, grab>>

\* Mutant of RedrawOnload: the redraw fits the frame to the raster again.
RedrawOnloadResetsFrame(r) ==
    /\ BagIn(r, redraws)
    /\ Decodes(src)
    /\ canvas' = [width  |-> BoundingBox(src, r).width,
                  height |-> BoundingBox(src, r).height,
                  drawn  |-> Drawn(src, r)]
    /\ frame' = LoaderFrame(src, stage, aspectRatio)
    /\ redraws' = redraws (-) SetToBag({r})
    /\ UNCHANGED <<stage, src, aspectRatio, maskSrc, rotation, isDragging,
                   dragStart, activeHandle, isLoaded, loader, exports,
                   delivered, rightHist, presses, moves, stale, commits, crops, hovered, grab>>

\* img.onload of the rotation effect that ran for rotation r.
RedrawOnload(r) ==
    /\ BagIn(r, redraws)
    /\ Decodes(src)
    /\ canvas' = [width  |-> BoundingBox(src, r).width,
                  height |-> BoundingBox(src, r).height,
                  drawn  |-> Drawn(src, r)]
    /\ redraws' = redraws (-) SetToBag({r})
    /\ UNCHANGED <<stage, src, aspectRatio, maskSrc, rotation, frame,
                   isDragging, dragStart, activeHandle, isLoaded, loader,
                   exports, delivered, rightHist, presses, moves, stale, commits, crops, hovered,
          grab>>

\* The rotation effect's Image fails to decode: no handler is attached.
RedrawOnerror(r) ==
    /\ BagIn(r, redraws)
    /\ ~Decodes(src)
    /\ redraws' = redraws (-) SetToBag({r})
    /\ UNCHANGED <<stage, src, aspectRatio, maskSrc, rotation, frame,
                   isDragging, dragStart, activeHandle, isLoaded, canvas,
                   loader, exports, delivered, rightHist, presses, moves, stale,
                   commits, crops, hovered, grab>>

-----------------------------------------------------------------------------
(* Prop changes.  An effect whose dependency changed runs again and makes   *)
(* a new Image; no effect has a cleanup, so the Image of the run before     *)
(* stays in flight and its onload still fires, with the props it closed     *)
(* over.                                                                    *)

\* The callback of a superseded run of the loader effect, of the rotation
\* effect.
StaleLoader(im, ar) ==
    [effect |-> "loader", src |-> im, aspectRatio |-> ar, rotation |-> 0]
StaleRedraw(im, deg) ==
    [effect |-> "rotation", src |-> im, aspectRatio |-> Num(1), rotation |-> deg]

\* The loader's Image of the run before, when it has not fired yet.
PendingLoader ==
    IF loader = "pending"
    THEN SetToBag({StaleLoader(src, aspectRatio)})
    ELSE EmptyBag

\* The rotation effect's Images that have not fired yet, as stale callbacks.
PendingRedraws ==
    [e \in {StaleRedraw(src, r) : r \in BagToSet(redraws)} |-> redraws[e.rotation]]

\* The parent re-renders with another src: both effects run again.
SrcChange(im) ==
    /\ im # src
    /\ src' = im
    /\ stale' = stale (+) PendingLoader (+) PendingRedraws
    /\ BagCardinality(stale') <= MaxPending
    /\ loader' = "pending"
    /\ redraws' = SetToBag({rotation})
    /\ UNCHANGED <<stage, aspectRatio, maskSrc, rotation, frame, isDragging,
                   dragStart, activeHandle, isLoaded, canvas, exports,
                   delivered, rightHist, presses, moves, commits, crops, hovered, grab>>

\* The parent re-renders with another aspectRatio: the loader effect runs
\* again.
AspectRatioChange(ar) ==
    /\ ar # aspectRatio
    /\ aspectRatio' = ar
    /\ stale' = stale (+) PendingLoader
    /\ BagCardinality(stale') <= MaxPending
    /\ loader' = "pending"
    /\ UNCHANGED <<stage, src, maskSrc, rotation, frame, isDragging,
                   dragStart, activeHandle, isLoaded, canvas, redraws,
                   exports, delivered, rightHist, presses, moves, commits, crops, hovered,
                   grab>>

\* img.onload of a superseded run of the loader effect.
StaleLoaderOnload(e) ==
    /\ BagIn(e, stale)
    /\ e.effect = "loader"
    /\ Decodes(e.src)
    /\ canvas' = [width |-> e.src.width, height |-> e.src.height,
                  drawn |-> Drawn(e.src, 0)]
    /\ frame' = LoaderFrame(e.src, stage, e.aspectRatio)
    /\ isLoaded' = TRUE
    /\ stale' = stale (-) SetToBag({e})
    /\ UNCHANGED <<stage, src, aspectRatio, maskSrc, rotation, isDragging,
                   dragStart, activeHandle, loader, redraws, exports,
                   delivered, rightHist, presses, moves, commits, crops, hovered, grab>>

\* img.onload of a superseded run of the rotation effect.
StaleRedrawOnload(e) ==
    /\ BagIn(e, stale)
    /\ e.effect = "rotation"
    /\ Decodes(e.src)
    /\ canvas' = [width  |-> BoundingBox(e.src, e.rotation).width,
                  height |-> BoundingBox(e.src, e.rotation).height,
                  drawn  |-> Drawn(e.src, e.rotation)]
    /\ stale' = stale (-) SetToBag({e})
    /\ UNCHANGED <<stage, src, aspectRatio, maskSrc, rotation, frame,
                   isDragging, dragStart, activeHandle, isLoaded, loader,
                   redraws, exports, delivered, rightHist, presses, moves, commits, crops,
                   hovered, grab>>

\* The Image of a superseded run fails to decode: no handler is attached.
StaleOnerror(e) ==
    /\ BagIn(e, stale)
    /\ ~Decodes(e.src)
    /\ stale' = stale (-) SetToBag({e})
    /\ UNCHANGED <<stage, src, aspectRatio, maskSrc, rotation, frame,
                   isDragging, dragStart, activeHandle, isLoaded, canvas,
                   loader, redraws, exports, delivered, rightHist, presses, moves,
                   commits, crops, hovered, grab>>

-----------------------------------------------------------------------------
(* Exporter.                                                               *)

\* Mutant of AdjustedCrop: the canvas offset is not subtracted.
AdjustedCropNoOffset(f, cv, st) ==
    LET scale == RDiv(Num(cv.width), DisplaySize(cv, st).width)
    IN [x      |-> RMul(f.tx, scale),
        y      |-> RMul(f.ty, scale),
        width  |-> RMul(f.sx, scale),
        height |-> RMul(f.sy, scale)]

\* adjustedCrop: the frame f in the native pixels of the display raster cv.
AdjustedCrop(f, cv, st) ==
    LET canvasRect == DisplaySize(cv, st)
        canvasOffset == CanvasOffset(cv, st)
        scale == RDiv(Num(cv.width), canvasRect.width)
    IN [x      |-> RMul(RSub(f.tx, canvasOffset.x), scale),
        y      |-> RMul(RSub(f.ty, canvasOffset.y), scale),
        width  |-> RMul(f.sx, scale),
        height |-> RMul(f.sy, scale)]

\* The output raster: canvas.width = adjustedCrop.width, and the height.
OutputSize(crop) ==
    [width |-> ToLength(crop.width), height |-> ToLength(crop.height)]

\* The output raster after ctx.drawImage: the region drawn, from which
\* picture, and whether the mask has been composited onto it.  frame and
\* raster record what the export read.
CropOf(f, cv, st) ==
    [frame  |-> f,
     raster |-> cv,
     crop   |-> AdjustedCrop(f, cv, st),
     out    |-> OutputSize(AdjustedCrop(f, cv, st)),
     masked |-> FALSE]

\* canvas.toDataURL(type): the payload.  mask tells how the mask decode of
\* the commit ended: "none" (no maskSrc), "decoded" or "failed".
DataURL(raster, type, mask) ==
    [content |-> raster, format |-> type, mask |-> mask]

\* maskImage.onload: composite the mask, encode as PNG.
MaskedPayload(raster) ==
    DataURL([raster EXCEPT !.masked = TRUE], "png", "decoded")

\* Mutant of FallbackPayload: onerror composites and encodes like onload.
FallbackPayloadMasked(raster) ==
    DataURL([raster EXCEPT !.masked = TRUE], "png", "failed")

\* maskImage.onerror: the unmasked crop, encoded as JPEG.
FallbackPayload(raster) == DataURL(raster, "jpeg", "failed")

\* The return at the end of handleCrop when no maskSrc is supplied.
UnmaskedPayload(raster) == DataURL(raster, "jpeg", "none")

\* Mutant of Done: the guard on the 2D context is missing.
DoneWithoutGuard(ctx) ==
    /\ Len(commits) < MaxCommits
    /\ commits' = Append(commits, ctx)
    /\ crops' = Append(crops, CropOf(frame, canvas, stage))
    /\ IF maskSrc
       THEN /\ BagCardinality(exports) < MaxPending
            /\ exports' = exports (+) SetToBag({CropOf(frame, canvas, stage)})
            /\ UNCHANGED delivered
       ELSE /\ delivered' = Append(delivered,
                               UnmaskedPayload(CropOf(frame, canvas, stage)))
            /\ UNCHANGED exports
    /\ UNCHANGED <<stage, src, aspectRatio, maskSrc, rotation, frame,
                   isDragging, dragStart, activeHandle, isLoaded, canvas,
                   loader, redraws, rightHist, presses, moves, stale, hovered, grab>>

\* Done onClick, with the 2D context of the output canvas available or not.
\* handleCrop returns nothing without it, and onChange is then not called.
Done(ctx) ==
    /\ Len(commits) < MaxCommits
    /\ commits' = Append(commits, ctx)
    /\ crops' = IF ctx THEN Append(crops, CropOf(frame, canvas, stage))
                ELSE crops
    /\ IF ~ctx
       THEN UNCHANGED <<exports, delivered>>
       ELSE IF maskSrc
            THEN /\ BagCardinality(exports) < MaxPending
                 /\ exports' = exports (+) SetToBag({CropOf(frame, canvas, stage)})
                 /\ UNCHANGED delivered
            ELSE /\ delivered' = Append(delivered,
                                    UnmaskedPayload(CropOf(frame, canvas, stage)))
                 /\ UNCHANGED exports
    /\ UNCHANGED <<stage, src, aspectRatio, maskSrc, rotation, frame,
                   isDragging, dragStart, activeHandle, isLoaded, canvas,
                   loader, redraws, rightHist, presses, moves, stale, hovered, grab>>

\* Mutant of MaskOnload: the crop is drawn when the mask has decoded.
MaskOnloadReadsFrame(e) ==
    /\ BagIn(e, exports)
    /\ exports' = exports (-) SetToBag({e})
    /\ delivered' = Append(delivered, MaskedPayload(CropOf(frame, canvas, stage)))
    /\ UNCHANGED <<stage, src, aspectRatio, maskSrc, rotation, frame,
                   isDragging, dragStart, activeHandle, isLoaded, canvas,
                   loader, redraws, rightHist, presses, moves, stale, commits,
                   crops, hovered, grab>>

\* maskImage.onload of a commit whose output raster is e.
MaskOnload(e) ==
    /\ BagIn(e, exports)
    /\ exports' = exports (-) SetToBag({e})
    /\ delivered' = Append(delivered, MaskedPayload(e))
    /\ UNCHANGED <<stage, src, aspectRatio, maskSrc, rotation, frame,
                   isDragging, dragStart, activeHandle, isLoaded, canvas,
                   loader, redraws, rightHist, presses, moves, stale,
                   commits, crops, hovered, grab>>

\* Mutant of MaskOnerror: the Promise is never resolved.
MaskOnerrorSilent(e) ==
    /\ BagIn(e, exports)
    /\ exports' = exports (-) SetToBag({e})
    /\ UNCHANGED <<stage, src, aspectRatio, maskSrc, rotation, frame,
                   isDragging, dragStart, activeHandle, isLoaded, canvas,
                   loader, redraws, delivered, rightHist, presses, moves, stale,
                   commits, crops, hovered, grab>>

\* maskImage.onerror of a commit whose output raster is e.
MaskOnerror(e) ==
    /\ BagIn(e, exports)
    /\ exports' = exports (-) SetToBag({e})
    /\ delivered' = Append(delivered, FallbackPayload(e))
    /\ UNCHANGED <<stage, src, aspectRatio, maskSrc, rotation, frame,
                   isDragging, dragStart, activeHandle, isLoaded, canvas,
                   loader, redraws, rightHist, presses, moves, stale,
                   commits, crops, hovered, grab>>

-----------------------------------------------------------------------------
(* The claims.                                                             *)

\* A pointer-move of a drag has been delivered.
Moved == isLoaded /\ moves > 0

\* C1: after every pointer-move of a drag that starts from the loader's
\* frame, sx >= 100 and sy >= 100.
C1_MinSize ==
    Moved => /\ RLe(Num(MinSize), frame.sx)
             /\ RLe(Num(MinSize), frame.sy)

\* C2: once the image has loaded, the crop rectangle lies inside the stage:
\* tx >= 0, ty >= 0, tx + sx <= stageWidth, ty + sy <= stageHeight.
C2_InsideStage ==
    isLoaded => /\ RLe(Num(0), frame.tx)
                /\ RLe(Num(0), frame.ty)
                /\ RLe(RAdd(frame.tx, frame.sx), Num(stage.width))
                /\ RLe(RAdd(frame.ty, frame.sy), Num(stage.height))

\* C3: with a fixed aspect ratio r, the loader's frame and the frame after
\* every pointer-move satisfy sx = r * sy.
C3_AspectHeld ==
    isLoaded => frame.sx = RMul(aspectRatio, frame.sy)

\* C3's case: a corner drag has resized a frame whose ratio is not 1.
C3_Witness ==
    /\ Moved
    /\ activeHandle = "tl"
    /\ aspectRatio # Num(1)
    /\ frame.sx # LoaderFrame(src, stage, aspectRatio).sx

\* C4, as claimed: the rotation is an integer in [0, 360).
C4_HalfOpen == rotation \in 0..359

\* C4, amended: the rotation is an integer in [0, 360]; the slider's
\* maximum, 360, is a value it takes.
C4_RotationRange == rotation \in 0..360

\* C4's case: the slider has delivered its maximum.
C4_Witness == rotation = 360

\* The export read by the i-th payload delivered.
Export(i) == delivered[i].content

\* The payload's source rectangle is the frame less the canvas offset, times
\* scale = native width / displayed width (stated without the division).
MapsFrame(c) ==
    LET shown == DisplaySize(c.raster, stage)
        off == CanvasOffset(c.raster, stage)
        native == Num(c.raster.width)
    IN /\ RMul(c.crop.x, shown.width) = RMul(RSub(c.frame.tx, off.x), native)
       /\ RMul(c.crop.y, shown.width) = RMul(RSub(c.frame.ty, off.y), native)
       /\ RMul(c.crop.width, shown.width) = RMul(c.frame.sx, native)
       /\ RMul(c.crop.height, shown.width) = RMul(c.frame.sy, native)

\* The example: frame (10, 10, 100, 100) on a 400 x 400 raster shown at
\* 200 x 200 gives the native rectangle (20, 20, 200, 200), 200 x 200 out.
ExampleFrame ==
    [tx |-> Num(10), ty |-> Num(10), sx |-> Num(100), sy |-> Num(100)]

IsExample(c) ==
    /\ c.frame = ExampleFrame
    /\ c.raster.width = 400 /\ c.raster.height = 400
    /\ DisplaySize(c.raster, stage) = [width |-> Num(200), height |-> Num(200)]

ExampleHolds(c) ==
    IsExample(c) =>
        /\ c.crop = [x |-> Num(20), y |-> Num(20),
                     width |-> Num(200), height |-> Num(200)]
        /\ c.out = [width |-> 200, height |-> 200]

\* C5, as claimed: every payload's source rectangle is the mapped frame and
\* the output raster has exactly the mapped width and height.
C5_ExactSize ==
    \A i \in DOMAIN delivered :
        /\ MapsFrame(Export(i))
        /\ Num(Export(i).out.width) = Export(i).crop.width
        /\ Num(Export(i).out.height) = Export(i).crop.height
        /\ ExampleHolds(Export(i))

\* C5, amended: every payload's source rectangle is the mapped frame and the
\* output raster's width and height are the mapped ones with their fraction
\* dropped (the mapped ones when they are whole, as in the example).
C5_Mapping ==
    \A i \in DOMAIN delivered :
        /\ MapsFrame(Export(i))
        /\ RLe(Num(Export(i).out.width), Export(i).crop.width)
        /\ RLt(Export(i).crop.width, Num(Export(i).out.width + 1))
        /\ RLe(Num(Export(i).out.height), Export(i).crop.height)
        /\ RLt(Export(i).crop.height, Num(Export(i).out.height + 1))
        /\ ExampleHolds(Export(i))

\* C5's case: the example's export has been delivered.
C5_Witness ==
    \E i \in DOMAIN delivered : IsExample(Export(i))

\* C6: a payload whose mask decode failed is the payload an export without
\* a mask gives for the same frame and raster; the mask is composited, and
\* the payload a PNG, exactly when the decode succeeded.
C6_Fallback ==
    \A i \in DOMAIN delivered :
        LET d == delivered[i]
            plain == UnmaskedPayload(CropOf(d.content.frame, d.content.raster, stage))
        IN /\ d.mask = "failed" =>
                 /\ d.content = plain.content
                 /\ d.format = plain.format
           /\ d.content.masked <=> d.mask = "decoded"
           /\ d.format = "png" <=> d.mask = "decoded"
           /\ d.format \in {"png", "jpeg"}

\* C6's case: a commit with a mask has fallen back after a drag.
C6_Witness ==
    \E i \in DOMAIN delivered :
        /\ delivered[i].mask = "failed"
        /\ delivered[i].content.frame # LoaderFrame(src, stage, aspectRatio)

\* C7: a pointer-move of a drag with handle l whose x exceeds
\* tx + sx - 100 sets the left edge to tx + sx - 100, and sx to 100.
C7_LeftClamp ==
    [][ ( /\ moves' = moves + 1
          /\ activeHandle = "l"
          /\ RLt(RSub(RAdd(frame.tx, frame.sx), Num(MinSize)), dragStart'.x) )
        => ( /\ frame'.tx = RSub(RAdd(frame.tx, frame.sx), Num(MinSize))
             /\ frame'.sx = Num(MinSize) ) ]_vars

\* C8: after four rotate-rights in a row the bounding box of the display
\* raster is the one before them, and a rotation that was 0 is 0 again.
C8_FullTurn ==
    Len(rightHist) = 4 =>
        /\ BoundingBox(src, rotation) = BoundingBox(src, rightHist[1])
        /\ rightHist[1] = 0 => rotation = 0

\* C8's case: four rotate-rights from the slider's maximum, on an image
\* that is not square.
C8_Witness ==
    /\ Len(rightHist) = 4
    /\ rightHist[1] = 360
    /\ src.width # src.height

\* C9: from Dragging, pointer-up and pointer-leave end in Idle: isDragging
\* is false and activeHandle is none.
C9_DragEnds ==
    [][ (isDragging /\ (onMouseUp \/ onMouseLeave))
        => (~isDragging' /\ activeHandle' = "none") ]_vars

\* C9's case: a drag that moved the frame has ended.
C9_Witness ==
    /\ Moved
    /\ ~isDragging
    /\ activeHandle = "none"
    /\ frame # LoaderFrame(src, stage, aspectRatio)

\* C10: when the source image fails to decode, the frame is never
\* initialised and no drag starts: isLoaded stays false.
C10_NeverInteractive ==
    ~src.ok => /\ ~isLoaded
               /\ frame = InitialFrame
               /\ ~isDragging
               /\ activeHandle = "none"

\* C10's case: the decode has failed.
C10_Witness == loader = "failed"

\* C11: whenever isLoaded is true, the image the current src names has been
\* decoded, painted and used to initialise the frame (the onload of the
\* latest run of the loader effect has fired), also after src or
\* aspectRatio have changed.
C11_ReadyAfterLoad ==
    isLoaded => loader = "done"

\* The Done clicks that found the 2D context.
Committed == Cardinality({i \in DOMAIN commits : commits[i]})

\* C12: a commit with the context available leads to exactly one onChange
\* invocation, with or without a mask and however the mask decode ends: the
\* invocations made and the mask decodes in flight always add up to the
\* commits, and the n-th commit is followed by the n-th invocation.
C12_OneInvocation ==
    /\ [](Len(delivered) + BagCardinality(exports) = Committed)
    /\ \A n \in 1..MaxCommits :
          (Committed >= n) ~> (Len(delivered) >= n)

\* C12's case: a commit whose mask failed to decode has been delivered.
C12_Witness ==
    /\ Committed = 1
    /\ Len(delivered) = 1
    /\ delivered[1].mask = "failed"

\* C13: a Done click that finds no 2D context is a no-op: nothing is
\* delivered or left pending, and frame, drag state, rotation and display
\* raster are unchanged.
C13_NoContextNoOp ==
    [][ ( /\ Len(commits') = Len(commits) + 1
          /\ ~commits'[Len(commits')] )
        => UNCHANGED <<delivered, exports, frame, isDragging, dragStart,
                       activeHandle, rotation, canvas>> ]_vars

\* C13's case: Done was clicked without a context in the middle of a drag
\* that had moved the frame, and nothing was delivered.
C13_Witness ==
    /\ \E i \in DOMAIN commits : ~commits[i]
    /\ isDragging
    /\ Moved
    /\ frame # LoaderFrame(src, stage, aspectRatio)
    /\ delivered = <<>>
    /\ exports = EmptyBag

\* A pointer-move is delivered to a drag in this step.
DragMove == moves' = moves + 1

\* C14: every pointer-move of a drag with a handle containing l keeps the
\* right edge (tx + sx) and puts the left edge in [0, tx + sx - 100].
C14_LeftHandle ==
    [][ (DragMove /\ Includes(activeHandle, "l"))
        => ( /\ RAdd(frame'.tx, frame'.sx) = RAdd(frame.tx, frame.sx)
             /\ RLe(Num(0), frame'.tx)
             /\ RLe(frame'.tx, RSub(RAdd(frame.tx, frame.sx), Num(MinSize))) )
      ]_vars

\* C15: every pointer-move of a drag with a handle containing t keeps the
\* bottom edge (ty + sy).
C15_BottomFixed ==
    [][ (DragMove /\ Includes(activeHandle, "t"))
        => RAdd(frame'.ty, frame'.sy) = RAdd(frame.ty, frame.sy) ]_vars

\* No image-decode callback of the loader or the rotation effect is in
\* flight, and the loader's has fired onload.
Settled ==
    /\ loader = "done"
    /\ redraws = EmptyBag
    /\ stale = EmptyBag

\* C16: once every image-decode callback in flight has fired, the display
\* raster shows the current src at the current rotation, with that
\* rotation's bounding box, whatever the order the callbacks fired in.
C16_RasterCurrent ==
    Settled =>
        canvas = [width  |-> BoundingBox(src, rotation).width,
                  height |-> BoundingBox(src, rotation).height,
                  drawn  |-> Drawn(src, rotation)]

\* A pointer-move is delivered while no drag is on in this step.
IdleMove == ~isDragging /\ ~hovered /\ hovered'

\* The onload of the loader's Image fires in this step.
LoaderFires == loader = "pending" /\ loader' = "done"

\* C17: a pointer-move while Idle leaves frame, dragStart and activeHandle
\* unchanged, as does every step from Idle to Idle but for the loader's
\* frame; the frame changes only in the loader callback and in a
\* pointer-move while Dragging.
C17_IdleMoveNoOp ==
    [][ /\ IdleMove => UNCHANGED <<frame, dragStart, activeHandle, isDragging>>
        /\ (~isDragging /\ ~isDragging')
             => UNCHANGED <<dragStart, activeHandle>>
        /\ frame' # frame => (LoaderFires \/ (isDragging /\ DragMove)) ]_vars

\* C17's case: a pointer-move has arrived while Idle, in a run whose drag
\* changed the frame and has ended.
C17_Witness ==
    /\ hovered
    /\ ~isDragging
    /\ Moved
    /\ frame # LoaderFrame(src, stage, aspectRatio)

\* C18: in a drag with the move handle, while no clamp has been hit, the
\* frame's displacement since the pointer-down is the pointer's, where the
\* pointer is at the drag origin after every pointer-move; sx and sy are
\* those of the pointer-down throughout, clamp or not.
C18_MoveFollowsPointer ==
    (isDragging /\ activeHandle = "move") =>
        /\ frame.sx = grab.frame.sx
        /\ frame.sy = grab.frame.sy
        /\ ~grab.clamped =>
              /\ RSub(frame.tx, grab.frame.tx) = RSub(dragStart.x, grab.at.x)
              /\ RSub(frame.ty, grab.frame.ty) = RSub(dragStart.y, grab.at.y)

\* C18's case: pointer-moves of a move drag that took the loader's frame
\* have displaced it on both axes without hitting a clamp.
C18_Witness ==
    /\ isDragging
    /\ activeHandle = "move"
    /\ ~grab.clamped
    /\ moves >= 2
    /\ grab.frame = LoaderFrame(src, stage, aspectRatio)
    /\ frame.tx # grab.frame.tx
    /\ frame.ty # grab.frame.ty

\* A rotation control changes the rotation in this step; a redraw of the
\* display raster lands in this step.
RotationChanges == rotation' # rotation
RedrawLands == BagCardinality(redraws') < BagCardinality(redraws)

\* C19: a change of the rotation, and the redraw that follows it, leave the
\* crop frame and the drag state unchanged.
C19_RotationKeepsFrame ==
    [][ (RotationChanges \/ RedrawLands)
        => UNCHANGED <<frame, isDragging, dragStart, activeHandle>> ]_vars

\* C19's case: the rotation has changed and the raster has been redrawn at
\* it, in a run with a drag, still on, that has resized the frame.
C19_Witness ==
    /\ rotation # 0
    /\ canvas.drawn = Drawn(src, rotation)
    /\ isDragging
    /\ activeHandle = "br"
    /\ Moved
    /\ frame # LoaderFrame(src, stage, aspectRatio)

\* C20: after a successful load the frame has sx half the smaller
\* dimension of the displayed image, sy = sx / aspectRatio, and its centre
\* on the centre of the displayed image.
C20_InitialFrame ==
    loader = "done" =>
        LET shown == DisplaySize(canvas, stage)
            off == CanvasOffset(canvas, stage)
            half(a) == RDiv(a, Num(2))
        IN /\ frame.sx = half(RMin(shown.width, shown.height))
           /\ frame.sy = RDiv(frame.sx, aspectRatio)
           /\ RAdd(frame.tx, half(frame.sx)) = RAdd(off.x, half(shown.width))
           /\ RAdd(frame.ty, half(frame.sy)) = RAdd(off.y, half(shown.height))

\* The output raster a payload encodes, before the mask was composited.
Unmasked(d) == [d.content EXCEPT !.masked = FALSE]

\* C21: with a mask, the payload delivered for a commit is drawn from the
\* frame as it was at the commit: it is the output raster of one of the
\* commits, as is every export whose mask is still decoding, whatever the
\* pointer did to the frame in between.
C21_FrameAtCommit ==
    /\ \A i \in DOMAIN delivered :
          \E k \in DOMAIN crops : Unmasked(delivered[i]) = crops[k]
    /\ \A e \in BagToSet(exports) :
          \E k \in DOMAIN crops : e = crops[k]

\* C21's case: a masked payload has been delivered after the pointer had
\* changed the frame while its mask was decoding.
C21_Witness ==
    /\ Len(crops) = 1
    /\ Len(delivered) = 1
    /\ delivered[1].mask = "decoded"
    /\ crops[1].frame # frame

\* C22: with a mask, the payloads reach onChange in the order of the
\* commits: the i-th payload delivered is the i-th commit's.
C22_CommitOrder ==
    \A i \in DOMAIN delivered : Unmasked(delivered[i]) = crops[i]

\* The last two clicks on the rotate buttons followed one another and were
\* one of each button.
Undone ==
    /\ Len(presses) = 2
    /\ presses[1].button # presses[2].button

\* C23, as claimed: rotate-left then rotate-right, and rotate-right then
\* rotate-left, return the rotation to the value it had before, whatever
\* value the buttons and the slider had given it.
C23_Inverse ==
    Undone => rotation = presses[1].from

\* C23, amended: they return the rotation to the value it had before when
\* that value was below 360, and to 0 when it was the slider's 360.
C23_InverseBelow360 ==
    Undone => rotation = (IF presses[1].from = 360 THEN 0 ELSE presses[1].from)

\* C23's case: the slider gave 200, then rotate-left and rotate-right were
\* clicked.
C23_Witness ==
    /\ Undone
    /\ presses[1] = [button |-> "left", from |-> 200]
    /\ rotation = 200

-----------------------------------------------------------------------------
(* Mount, and the specifications.                                          *)

\* After the first render and its effects: both effects have created their
\* Image, neither has fired.
Mounted(m, mask) ==
    /\ stage = [width |-> m.side, height |-> m.side]
    /\ src = m.src
    /\ aspectRatio = m.aspectRatio
    /\ maskSrc = mask
    /\ rotation = 0
    /\ frame = InitialFrame
    /\ isDragging = FALSE
    /\ dragStart = Pt([x |-> 0, y |-> 0])
    /\ activeHandle = "none"
    /\ isLoaded = FALSE
    /\ canvas = [width |-> DefaultCanvasWidth, height |-> DefaultCanvasHeight,
                 drawn |-> Blank]
    /\ loader = "pending"
    /\ redraws = SetToBag({0})
    /\ exports = EmptyBag
    /\ delivered = <<>>
    /\ rightHist = <<>>
    /\ moves = 0
    /\ stale = EmptyBag
    /\ commits = <<>>
    /\ hovered = FALSE
    /\ grab = NoGrab
    /\ crops = <<>>
    /\ presses = <<>>

Loading ==
    \/ LoaderOnload
    \/ LoaderOnerror

Pointing ==
    \/ \E p \in Pointers : onFrameMouseDown(p)
    \/ \E h \in Handles \ {"move"} : onHandleMouseDown(h)
    \/ \E p \in Pointers : handleMouseMove(p)
    \/ onMouseUp
    \/ onMouseLeave

\* The rotation controls.
Turning ==
    \/ RotateLeft
    \/ RotateRight
    \/ \E v \in SliderValues : SliderChange(v)

\* The callbacks of the rotation effect's Images.
Redrawing ==
    \/ \E r \in BagToSet(redraws) : RedrawOnload(r)
    \/ \E r \in BagToSet(redraws) : RedrawOnerror(r)

Rotating == Turning \/ Redrawing

Exporting ==
    \/ \E ctx \in BOOLEAN : Done(ctx)
    \/ \E e \in BagToSet(exports) : MaskOnload(e)
    \/ \E e \in BagToSet(exports) : MaskOnerror(e)

\* The frame controller: the loader and the pointer events.
InitFrame == \E m \in FrameMounts : Mounted(m, FALSE)
NextFrameCtl == Loading \/ Pointing
SpecFrame == InitFrame /\ [][NextFrameCtl]_vars

\* The transform stage: the loader, the rotation controls and the redraws.
InitRotation == \E m \in RotationMounts : Mounted(m, FALSE)
NextRotation == Loading \/ Rotating
SpecRotation == InitRotation /\ [][NextRotation]_vars

\* The loads alone.
InitLoad == \E m \in LoadMounts : Mounted(m, FALSE)
NextLoad == Loading
SpecLoad == InitLoad /\ [][NextLoad]_vars

\* Drags that meet a rotation: the loader, the pointer events, the first
\* change of the rotation by any of the three controls, and the redraws.
InitTurn == \E m \in TurnMounts : Mounted(m, FALSE)
Unturned == rotation = 0
NextTurn ==
    \/ Loading
    \/ Pointing
    \/ Unturned /\ RotateLeft
    \/ Unturned /\ RotateRight
    \/ Unturned /\ \E v \in SliderValues : SliderChange(v)
    \/ Redrawing
SpecTurn == InitTurn /\ [][NextTurn]_vars

\* The props: the loader, the re-renders with other props, and the callbacks
\* of the effects they superseded.
Reloading ==
    \/ \E im \in PropImages : SrcChange(im)
    \/ \E ar \in PropRatios : AspectRatioChange(ar)
    \/ \E e \in BagToSet(stale) : StaleLoaderOnload(e)
    \/ \E e \in BagToSet(stale) : StaleRedrawOnload(e)
    \/ \E e \in BagToSet(stale) : StaleOnerror(e)
    \/ Redrawing

InitProps == \E m \in RotationMounts : Mounted(m, FALSE)
NextProps == Loading \/ Reloading
SpecProps == InitProps /\ [][NextProps]_vars

\* The exporter: the loader, the drags that shape the frame, and then the
\* commits with their mask decodes.
InitExport == \E m \in ExportMounts : Mounted(m, m.mask)
NoCommitYet == delivered = <<>> /\ exports = EmptyBag
NextExport == Loading \/ (NoCommitYet /\ Pointing) \/ Exporting
SpecExport == InitExport /\ [][NextExport]_vars

\* The pointer events of a drag of the frame body.
Nudging ==
    \/ \E p \in Pointers : onFrameMouseDown(p)
    \/ \E p \in Pointers : handleMouseMove(p)
    \/ onMouseUp

\* Commits that a drag overlaps: the loader, the commits with a mask, and
\* the drags of the frame body while a mask is decoding.
InitMask == \E m \in MaskMounts : Mounted(m, m.mask)
Decoding == exports # EmptyBag
NextMask == Loading \/ (Decoding /\ Nudging) \/ Exporting
SpecMask == InitMask /\ [][NextMask]_vars

\* The commits alone: the loader and the exporter.  An Image whose src is
\* set fires one of load and error, so a mask decode in flight ends.
InitCommit == \E m \in CommitMounts : Mounted(m, m.mask)
NextCommit == Loading \/ Exporting
MaskFires == \E e \in BagToSet(exports) : MaskOnload(e) \/ MaskOnerror(e)
SpecCommit == InitCommit /\ [][NextCommit]_vars /\ WF_vars(MaskFires)

=============================================================================
